---- MODULE Spec2Model ----
(***************************************************************************)
(* Model of server.js, the backend of "Bank of Henzo": two JSON files      *)
(* (users.json, transactions.json) that every request handler reads whole, *)
(* mutates in memory and writes back whole.                                *)
(*                                                                         *)
(* Every handler of server.js is synchronous (readFileSync, writeFileSync, *)
(* no await, no callback), so Node runs it to completion before the next   *)
(* request is looked at: concurrently arriving requests are handled one at *)
(* a time, in any order.  One action is therefore one handler, and the     *)
(* interleavings of requests are the orders in which the actions fire.     *)
(* The only handler with an internal position is register, whose do-while  *)
(* loop re-samples Math.random() an unbounded number of times.             *)
(*                                                                         *)
(* The file system is the environment: a read may fail (readData then      *)
(* returns []), a write may fail leaving the file as it was, or fail after *)
(* the file was truncated, leaving bytes that JSON.parse rejects.          *)
(*                                                                         *)
(* Not modelled: createdAt (the clock), the note of a transfer (free text  *)
(* copied to the record), the read-only GET routes and login.  Amounts are *)
(* JSON numbers with integer values, or absent.                            *)
(***************************************************************************)
EXTENDS Integers, Sequences, FiniteSets, TLC

\* ---------------------------------------------------------------- bounds
MaxReq == 3          \* requests accepted in one behaviour
MaxAmount == 1       \* largest small amount a request carries
NumSamples == 2      \* low values of Math.random() that are drawn

\* ------------------------------------------------------ program constants
SeedBalance == 500000000
RangeBase == 10000       \* 1000000000 in units of 10^5 (TLC integers are 32 bit)
TransactionCode == "45242769012"
AdminId == "admin-1"
AdminEmail == "admin@example.com"
AdminAccountNumber == "9876543210"

VARIABLES
  usersFile,   \* users.json: [valid, data]; data is the array of accounts
  txFile,      \* transactions.json: [valid, data]; data is the array of transactions
  uuid,        \* number of uuidv4() values handed out so far (each one is fresh)
  nreq,        \* requests accepted so far
  reg,         \* the register handler's position and locals inside its do-while loop
  last         \* the route of the most recent request and the response sent for it

vars == <<usersFile, txFile, uuid, nreq, reg, last>>

\* ------------------------------------------------------------- JS values
Undefined == [t |-> "undefined"]
Num(n) == [t |-> "number", v |-> n]

\* !x for a request field that is a string or absent (absent is "")
NotString(s) == s = ""

\* !amount
NotValue(a) == a.t = "undefined" \/ (a.t = "number" /\ a.v = 0)

\* amount <= 0 (undefined converts to NaN, and NaN <= 0 is false)
LessEqZero(a) == a.t = "number" /\ a.v <= 0

Digit(d) ==
  CASE d = 0 -> "0" [] d = 1 -> "1" [] d = 2 -> "2" [] d = 3 -> "3" [] d = 4 -> "4"
    [] d = 5 -> "5" [] d = 6 -> "6" [] d = 7 -> "7" [] d = 8 -> "8" [] d = 9 -> "9"

DigitValue(c) ==
  CASE c = "0" -> 0 [] c = "1" -> 1 [] c = "2" -> 2 [] c = "3" -> 3 [] c = "4" -> 4
    [] c = "5" -> 5 [] c = "6" -> 6 [] c = "7" -> 7 [] c = "8" -> 8 [] c = "9" -> 9

IsDigit(c) == c \in {"0", "1", "2", "3", "4", "5", "6", "7", "8", "9"}

RECURSIVE DigitChars(_)
\* the decimal digits of a natural number, as a sequence of characters
DigitChars(n) == IF n < 10 THEN <<Digit(n)>> ELSE Append(DigitChars(n \div 10), Digit(n % 10))

\* String(n) for an integer n, as a sequence of characters
NumberToChars(n) == IF n < 0 THEN <<"-">> \o DigitChars(0 - n) ELSE DigitChars(n)

RECURSIVE DigitPrefixValue(_, _, _)
\* value of the longest prefix of digits of cs[i..], continuing from acc
DigitPrefixValue(cs, i, acc) ==
  IF i > Len(cs) \/ ~IsDigit(cs[i]) THEN acc
  ELSE DigitPrefixValue(cs, i + 1, acc * 10 + DigitValue(cs[i]))

\* Number.parseFloat(String(n)) on the characters: optional sign, then digits;
\* no digit at all gives NaN
parseFloatChars(cs) ==
  LET neg == Len(cs) > 0 /\ cs[1] = "-"
      start == IF neg THEN 2 ELSE 1
  IN IF start > Len(cs) \/ ~IsDigit(cs[start]) THEN [t |-> "NaN"]
     ELSE Num((IF neg THEN -1 ELSE 1) * DigitPrefixValue(cs, start, 0))

\* the amount counted twice
parseFloat_doubled(a) == Num(2 * a.v)

\* Number.parseFloat(amount) for an amount that is a number
parseFloat(a) == parseFloatChars(NumberToChars(a.v))

\* ------------------------------------------------------- account numbers
RECURSIVE PadDigits(_, _)
\* n written with exactly w decimal digits
PadDigits(n, w) == IF w = 0 THEN "" ELSE PadDigits(n \div 10, w - 1) \o Digit(n % 10)

\* Math.floor(Math.random() * 9000000000), as [hi, lo] with value hi * 10^5 + lo
AdminDraw == [hi |-> 88765, lo |-> 43210]
RandomDraws == {[hi |-> 0, lo |-> k] : k \in 0..(NumSamples - 1)} \cup {AdminDraw}

\* Math.floor(1000000000 + Math.random() * 9000000000).toString()
generateAccountNumber(draw) == PadDigits(RangeBase + draw.hi, 5) \o PadDigits(draw.lo, 5)

AccountNumbers == {generateAccountNumber(d) : d \in RandomDraws}

\* ------------------------------------------------------------ the files
SeedUsers ==
  << [id |-> AdminId, name |-> "Admin User", email |-> AdminEmail, password |-> "admin123",
      role |-> "admin", accountNumber |-> AdminAccountNumber, balance |-> SeedBalance,
      currency |-> "USD", status |-> "active"] >>

\* a snapshot taken before the latest element was committed
readData_staleSnapshot(file, ok) ==
  IF Len(file.data) > 1 THEN SubSeq(file.data, 1, Len(file.data) - 1) ELSE file.data

\* readData(file): ok is FALSE when readFileSync throws; JSON.parse throws on a
\* file that holds no valid JSON
readData(file, ok) == IF ok /\ file.valid THEN file.data ELSE <<>>

\* what the file system can do to a read and to a write
ReadOutcomes == {TRUE, FALSE}
WriteOutcomes == {"ok", "fail", "torn"}

\* a file system that never fails
ReadOk == {TRUE}
WriteOk == {"ok"}

\* the value writeData(file, data) returns
writeData(w) == w = "ok"

\* the file after writeData(file, data) with outcome w
FileAfterWrite(file, data, w) ==
  CASE w = "ok" -> [valid |-> TRUE, data |-> data]
    [] w = "fail" -> file
    [] w = "torn" -> [valid |-> FALSE, data |-> <<>>]

\* ------------------------------------------------------------- requests
\* the ids of the admin, of the first registered account, and of the second
Ids == {AdminId} \cup {"user-" \o ToString(k) : k \in 1..2}
CallerIds == {AdminId, "user-1", ""}
Emails == {AdminEmail, "ann@example.com", "bob@example.com"}
\* absent, negative, zero, small; a transfer may also carry the whole seed
\* balance (a mint of it is left out: TLC's integers are 32 bits wide)
Amounts == {Undefined} \cup {Num(n) : n \in (-1)..MaxAmount}
SendAmounts == Amounts \cup {Num(SeedBalance)}

RegisterRequests ==
  [firstName : {"", "Ann"}, lastName : {"Lee"}, email : Emails \cup {""}, password : {"pw"}]
SendRequests ==
  [senderId : CallerIds, recipientAccountNumber : AccountNumbers \cup {""},
   amount : SendAmounts, transactionCode : {TransactionCode, "0000"}]
FundRequests ==
  [adminId : CallerIds, accountNumber : AccountNumbers \cup {""}, amount : Amounts]
DeleteRequests == [id : Ids]

\* ------------------------------------------------------------- helpers
Min(S) == CHOOSE x \in S : \A y \in S : x <= y

\* users.findIndex(u => u.id === id), 0 for -1
findIndexById(users, id) ==
  LET S == {i \in DOMAIN users : users[i].id = id} IN IF S = {} THEN 0 ELSE Min(S)

\* users.find(u => u.accountNumber === n), as an index, 0 for undefined
findIndexByAccountNumber(users, n) ==
  LET S == {i \in DOMAIN users : users[i].accountNumber = n} IN IF S = {} THEN 0 ELSE Min(S)

\* users.find(u => u.id === adminId && u.role === "admin")
findAdminIndex(users, adminId) ==
  LET S == {i \in DOMAIN users : users[i].id = adminId /\ users[i].role = "admin"}
  IN IF S = {} THEN 0 ELSE Min(S)

\* the test left out
EmailInUse_never(users, email) == FALSE

\* users.some(u => u.email === email)
EmailInUse(users, email) == \E i \in DOMAIN users : users[i].email = email

\* the sampled number compared with the first account's only
AccountNumberTaken_firstOnly(users, n) == Len(users) > 0 /\ users[1].accountNumber = n

\* the loop left after its first pass, whatever was sampled
AccountNumberTaken_never(users, n) == FALSE

\* users.some(u => u.accountNumber === accountNumber)
AccountNumberTaken(users, n) == \E i \in DOMAIN users : users[i].accountNumber = n

\* users.splice(i, 1)
Splice(users, i) == [k \in 1..(Len(users) - 1) |-> IF k < i THEN users[k] ELSE users[k + 1]]

\* the response sent on route op: res.status(status).json({success, message})
Reply(op, req, status, success, message) ==
  [op |-> op, status |-> status, success |-> success, message |-> message]

Idle == [pc |-> "idle"]

\* ------------------------------------------- POST /api/transactions/send
\* the whole balance refused
InsufficientFunds_strict(balance, amount) == balance <= amount.v

\* the test made one unit too lenient
InsufficientFunds_offByOne(balance, amount) == balance + 1 < amount.v

\* the test left out
InsufficientFunds_never(balance, amount) == FALSE

\* sender.balance < amount
InsufficientFunds(balance, amount) == balance < amount.v

\* the debit left out
Debit_dropped(balance, amount) == balance

\* sender.balance -= amount
Debit(balance, amount) == balance - amount.v

\* recipient.balance += amount
Credit(balance, amount) == balance + amount.v

\* the transaction record built by the send handler
TransferRecord(req, sender, recipient, n) ==
  [id |-> "tx-" \o ToString(n), type |-> "transfer",
   senderId |-> req.senderId, senderName |-> sender.name, senderEmail |-> sender.email,
   senderAccountNumber |-> sender.accountNumber,
   recipientId |-> recipient.id, recipientName |-> recipient.name,
   recipientEmail |-> recipient.email,
   recipientAccountNumber |-> req.recipientAccountNumber,
   amount |-> req.amount.v, currency |-> sender.currency, status |-> "completed"]

Reject(status, message) == [commit |-> FALSE, status |-> status, message |-> message]

\* the test amount <= 0 left out
sendInvalid_noSignTest(req) ==
  NotString(req.senderId) \/ NotString(req.recipientAccountNumber) \/ NotValue(req.amount)

\* the first check of the send handler, made before anything is read
sendInvalid(req) ==
  NotString(req.senderId) \/ NotString(req.recipientAccountNumber)
    \/ NotValue(req.amount) \/ LessEqZero(req.amount)

\* The send handler from its read of the users to the transaction record: the
\* early return it takes, or the users array and the record it goes on to
\* write.  sender and recipient are references into users, so a transfer to
\* oneself debits and credits the same object.
sendHandler(req, users, n) ==
  LET si == findIndexById(users, req.senderId)
      ri == findIndexByAccountNumber(users, req.recipientAccountNumber)
  IN IF si = 0 THEN Reject(404, "Sender not found")
     ELSE IF ri = 0 THEN Reject(404, "Recipient account not found")
     ELSE IF InsufficientFunds(users[si].balance, req.amount)
     THEN Reject(400, "Insufficient funds")
     ELSE
       LET debited == [users EXCEPT ![si].balance = Debit(@, req.amount)]
           credited == [debited EXCEPT ![ri].balance = Credit(@, req.amount)]
       IN [commit |-> TRUE, users |-> credited,
           transaction |-> TransferRecord(req, credited[si], credited[ri], n)]

\* the two writes made in the other order
writeBoth_logFirst(op, req, users, transactions, failure, W) ==
  \E wT \in W :
    /\ txFile' = FileAfterWrite(txFile, transactions, wT)
    /\ IF writeData(wT)
       THEN \E wU \in W :
              /\ usersFile' = FileAfterWrite(usersFile, users, wU)
              /\ last' = IF writeData(wU) THEN Reply(op, req, 200, TRUE, "")
                         ELSE Reply(op, req, 500, FALSE, failure)
       ELSE /\ usersFile' = usersFile
            /\ last' = Reply(op, req, 500, FALSE, failure)

\* writeData(USERS_FILE, users) && writeData(TRANSACTIONS_FILE, transactions):
\* the second write is made only when the first returned true.  W is the set
\* of outcomes the file system may give a write.
writeBoth(op, req, users, transactions, failure, W) ==
  \E wU \in W :
    /\ usersFile' = FileAfterWrite(usersFile, users, wU)
    /\ IF writeData(wU)
       THEN \E wT \in W :
              /\ txFile' = FileAfterWrite(txFile, transactions, wT)
              /\ last' = IF writeData(wT) THEN Reply(op, req, 200, TRUE, "")
                         ELSE Reply(op, req, 500, FALSE, failure)
       ELSE /\ txFile' = txFile
            /\ last' = Reply(op, req, 500, FALSE, failure)

\* One request to POST /api/transactions/send.  R and W are the outcomes the
\* file system may give the handler's reads and writes.
sendTransfer(req, R, W) ==
  /\ reg.pc = "idle"
  /\ nreq < MaxReq
  /\ nreq' = nreq + 1
  /\ reg' = reg
  /\ IF sendInvalid(req)
     THEN /\ last' = Reply("send", req, 400, FALSE, "Invalid transaction data")
          /\ UNCHANGED <<usersFile, txFile, uuid>>
     ELSE IF req.transactionCode # TransactionCode
     THEN /\ last' = Reply("send", req, 400, FALSE, "Invalid transaction code")
          /\ UNCHANGED <<usersFile, txFile, uuid>>
     ELSE \E rU \in R :
            LET r == sendHandler(req, readData(usersFile, rU), uuid + 1)
            IN IF r.commit
               THEN /\ uuid' = uuid + 1
                    /\ \E rT \in R :
                         writeBoth("send", req, r.users,
                                   Append(readData(txFile, rT), r.transaction),
                                   "Failed to process transaction", W)
               ELSE /\ UNCHANGED <<usersFile, txFile, uuid>>
                    /\ last' = Reply("send", req, r.status, FALSE, r.message)

\* ---------------------------------------------- POST /api/admin/fund-user
\* the transaction record built by the fund handler
FundRecord(req, admin, user, n) ==
  [id |-> "tx-" \o ToString(n), type |-> "admin-fund",
   adminId |-> req.adminId, adminName |-> admin.name,
   recipientId |-> user.id, recipientName |-> user.name, recipientEmail |-> user.email,
   recipientAccountNumber |-> req.accountNumber,
   amount |-> parseFloat(req.amount).v, currency |-> user.currency,
   note |-> "Admin funding", status |-> "completed"]

\* the first check of the fund handler, made before anything is read
fundInvalid(req) ==
  NotString(req.adminId) \/ NotString(req.accountNumber)
    \/ NotValue(req.amount) \/ LessEqZero(req.amount)

\* The fund handler from its read of the users to the transaction record.
fundHandler(req, users, n) ==
  LET ai == findAdminIndex(users, req.adminId)
      ui == findIndexByAccountNumber(users, req.accountNumber)
  IN IF ai = 0 THEN Reject(403, "Unauthorized")
     ELSE IF ui = 0 THEN Reject(404, "User account not found")
     ELSE
       LET funded == [users EXCEPT ![ui].balance = @ + parseFloat(req.amount).v]
       IN [commit |-> TRUE, users |-> funded,
           transaction |-> FundRecord(req, funded[ai], funded[ui], n)]

\* One request to POST /api/admin/fund-user.
fundAccount(req, R, W) ==
  /\ reg.pc = "idle"
  /\ nreq < MaxReq
  /\ nreq' = nreq + 1
  /\ reg' = reg
  /\ IF fundInvalid(req)
     THEN /\ last' = Reply("fund", req, 400, FALSE, "Invalid data")
          /\ UNCHANGED <<usersFile, txFile, uuid>>
     ELSE \E rU \in R :
            LET r == fundHandler(req, readData(usersFile, rU), uuid + 1)
            IN IF r.commit
               THEN /\ uuid' = uuid + 1
                    /\ \E rT \in R :
                         writeBoth("fund", req, r.users,
                                   Append(readData(txFile, rT), r.transaction),
                                   "Failed to fund user", W)
               ELSE /\ UNCHANGED <<usersFile, txFile, uuid>>
                    /\ last' = Reply("fund", req, r.status, FALSE, r.message)

\* -------------------------------------------------- DELETE /api/users/:id
\* the test left out
IsAdmin_never(u) == FALSE

\* users[userIndex].role === "admin"
IsAdmin(u) == u.role = "admin"

\* The delete handler from its read of the users to its write.
deleteHandler(req, users) ==
  LET i == findIndexById(users, req.id)
  IN IF i = 0 THEN Reject(404, "User not found")
     ELSE IF IsAdmin(users[i]) THEN Reject(403, "Cannot delete admin user")
     ELSE [commit |-> TRUE, users |-> Splice(users, i)]

\* One request to DELETE /api/users/:id.
deleteAccount(req, R, W) ==
  /\ reg.pc = "idle"
  /\ nreq < MaxReq
  /\ nreq' = nreq + 1
  /\ UNCHANGED <<txFile, uuid, reg>>
  /\ \E rU \in R :
       LET r == deleteHandler(req, readData(usersFile, rU))
       IN IF r.commit
          THEN \E wU \in W :
                 /\ usersFile' = FileAfterWrite(usersFile, r.users, wU)
                 /\ last' = IF writeData(wU)
                            THEN Reply("delete", req, 200, TRUE, "User deleted successfully")
                            ELSE Reply("delete", req, 500, FALSE, "Failed to delete user")
          ELSE /\ UNCHANGED usersFile
               /\ last' = Reply("delete", req, r.status, FALSE, r.message)

\* ------------------------------------------------ POST /api/auth/register
\* the account record built by the register handler
NewUser(req, accountNumber, n) ==
  [id |-> "user-" \o ToString(n), name |-> req.firstName \o " " \o req.lastName,
   email |-> req.email, password |-> req.password, role |-> "user",
   accountNumber |-> accountNumber, balance |-> 0, currency |-> "USD", status |-> "active"]

\* The tail of the register handler, once the do-while loop has left with an
\* account number: build the account, push it, write the array, respond.
registerFinish(req, users, accountNumber, W) ==
  /\ uuid' = uuid + 1
  /\ reg' = Idle
  /\ \E wU \in W :
       /\ usersFile' =
            FileAfterWrite(usersFile, Append(users, NewUser(req, accountNumber, uuid + 1)), wU)
       /\ last' = IF writeData(wU) THEN Reply("register", req, 201, TRUE, "")
                  ELSE Reply("register", req, 500, FALSE, "Failed to create user")

\* One pass of the do-while body and its test: sample, then leave the loop or
\* stay in it with the sampled number in the local accountNumber.
registerSample(req, users, draw, W) ==
  LET accountNumber == generateAccountNumber(draw)
  IN IF AccountNumberTaken(users, accountNumber)
     THEN /\ reg' = [pc |-> "sampling", req |-> req, users |-> users,
                     accountNumber |-> accountNumber]
          /\ UNCHANGED <<usersFile, uuid, last>>
     ELSE registerFinish(req, users, accountNumber, W)

\* One request to POST /api/auth/register, up to the end of the first pass of
\* the loop.
register(req, R, W) ==
  /\ reg.pc = "idle"
  /\ nreq < MaxReq
  /\ nreq' = nreq + 1
  /\ UNCHANGED txFile
  /\ IF NotString(req.firstName) \/ NotString(req.lastName)
          \/ NotString(req.email) \/ NotString(req.password)
     THEN /\ last' = Reply("register", req, 400, FALSE, "All fields are required")
          /\ UNCHANGED <<usersFile, uuid, reg>>
     ELSE \E rU \in R :
            LET users == readData(usersFile, rU)
            IN IF EmailInUse(users, req.email)
               THEN /\ last' = Reply("register", req, 400, FALSE, "Email already in use")
                    /\ UNCHANGED <<usersFile, uuid, reg>>
               ELSE \E draw \in RandomDraws : registerSample(req, users, draw, W)

\* A further pass of the do-while loop of a register handler that is in it.
\* No other handler runs meanwhile.
resample(W) ==
  /\ reg.pc = "sampling"
  /\ UNCHANGED <<txFile, nreq>>
  /\ \E draw \in RandomDraws : registerSample(reg.req, reg.users, draw, W)

\* ------------------------------------------------------ specifications
Init ==
  /\ usersFile = [valid |-> TRUE, data |-> SeedUsers]
  /\ txFile = [valid |-> TRUE, data |-> <<>>]
  /\ uuid = 0
  /\ nreq = 0
  /\ reg = Idle
  /\ last = [op |-> "none"]

Next ==
  \/ \E req \in RegisterRequests : register(req, ReadOutcomes, WriteOutcomes)
  \/ resample(WriteOutcomes)
  \/ \E req \in DeleteRequests : deleteAccount(req, ReadOutcomes, WriteOutcomes)
  \/ \E req \in SendRequests : sendTransfer(req, ReadOutcomes, WriteOutcomes)
  \/ \E req \in FundRequests : fundAccount(req, ReadOutcomes, WriteOutcomes)

\* every behaviour of the server, the file system failing at will
Spec == Init /\ [][Next]_vars

NextNoFault ==
  \/ \E req \in RegisterRequests : register(req, ReadOk, WriteOk)
  \/ resample(WriteOk)
  \/ \E req \in DeleteRequests : deleteAccount(req, ReadOk, WriteOk)
  \/ \E req \in SendRequests : sendTransfer(req, ReadOk, WriteOk)
  \/ \E req \in FundRequests : fundAccount(req, ReadOk, WriteOk)

\* the behaviours in which every read and every write of the two files succeeds
SpecNoFault == Init /\ [][NextNoFault]_vars

\* the values the spec gives an account's status; the code writes "active" only
Statuses == {"active", "disabled"}

\* a users.json found at start-up (the seed is written only when the file is
\* missing): the admin and one registered user, each with either status
ExistingUsers(sa, su) ==
  << [SeedUsers[1] EXCEPT !.status = sa],
     [NewUser([firstName |-> "Ann", lastName |-> "Lee", email |-> "ann@example.com",
               password |-> "pw"], generateAccountNumber([hi |-> 0, lo |-> 0]), 1)
        EXCEPT !.status = su, !.balance = 1] >>

InitAnyStore ==
  /\ usersFile \in {[valid |-> TRUE, data |-> ExistingUsers(sa, su)] : sa, su \in Statuses}
  /\ txFile = [valid |-> TRUE, data |-> <<>>]
  /\ uuid = 1
  /\ nreq = 0
  /\ reg = Idle
  /\ last = [op |-> "none"]

\* the server started on an existing users.json, every read and write succeeding
SpecAnyStore == InitAnyStore /\ [][NextNoFault]_vars

\* a pass of the do-while loop that samples a number no account holds and so
\* leaves the loop
leaveLoop == resample(WriteOk) /\ reg'.pc = "idle"

\* Math.random() gives independent samples: a handler that stays in the loop
\* while a free number can be sampled leaves it at some pass
SpecFair == SpecNoFault /\ WF_vars(leaveLoop)

\* --------------------------------------------------- reading the state
\* the accounts and the transactions a reader of the files gets
Accounts == usersFile.data
Log == txFile.data

HasAccount(users, id) == findIndexById(users, id) # 0
BalanceOf(users, id) == users[findIndexById(users, id)].balance
SumOfBalances(users, ids) ==
  LET RECURSIVE Sum(_)
      Sum(S) == IF S = {} THEN 0
                ELSE LET x == CHOOSE y \in S : TRUE IN BalanceOf(users, x) + Sum(S \ {x})
  IN Sum(ids)

LastTx == Log[Len(Log)]

\* a request the send handler's first two checks let through
WellFormedSend(req) == ~sendInvalid(req) /\ req.transactionCode = TransactionCode

\* the account a send request names as sender / as recipient, 0 if none
SenderIndex(req) == findIndexById(Accounts, req.senderId)
RecipientIndex(req) == findIndexByAccountNumber(Accounts, req.recipientAccountNumber)

\* the step accepts a request on route op and answers it
Answered(op) == nreq' = nreq + 1 /\ reg'.pc = "idle" /\ last'.op = op
StoreUnchanged == usersFile' = usersFile /\ txFile' = txFile

SendOf(i, j, b) ==
  [senderId |-> Accounts[i].id, recipientAccountNumber |-> Accounts[j].accountNumber,
   amount |-> Num(b), transactionCode |-> TransactionCode]

\* the positive amounts a send request carries
PositiveAmounts == {a.v : a \in {x \in SendAmounts : x.t = "number" /\ x.v > 0}}

C3_NoDoubleSpend ==
  [][Answered("send") =>
       \A i, j \in DOMAIN Accounts :
         \* the first of the two: the sender holds B
         /\ ( /\ i # j /\ Accounts[i].balance > 0
              /\ SendOf(i, j, Accounts[i].balance) \in SendRequests
              /\ sendTransfer(SendOf(i, j, Accounts[i].balance), ReadOk, WriteOk) ) =>
               (last'.success /\ BalanceOf(usersFile'.data, Accounts[i].id) = 0)
         \* the second: the call before it was the first, and took B
         /\ ( /\ i # j /\ Accounts[i].balance = 0
              /\ last.op = "send" /\ last.success /\ Len(Log) > 0
              /\ LastTx.senderId = Accounts[i].id
              /\ LastTx.senderId # LastTx.recipientId
              /\ SendOf(i, j, LastTx.amount) \in SendRequests
              /\ sendTransfer(SendOf(i, j, LastTx.amount), ReadOk, WriteOk) ) =>
               ( /\ ~last'.success /\ last'.message = "Insufficient funds"
                 /\ StoreUnchanged
                 /\ BalanceOf(usersFile'.data, Accounts[i].id) = 0 )]_vars

\* the state after the two requests: the log ends with the transfer that
\* took its sender's whole balance, every other account holds at least the
\* largest amount a request carries (so only that sender can lack funds),
\* and the request handled next after it was refused for insufficient funds
C3_Witness ==
  /\ last.op = "send" /\ ~last.success /\ last.message = "Insufficient funds"
  /\ Len(Log) > 0 /\ uuid = nreq - 1
  /\ LastTx.id = "tx-" \o ToString(uuid)
  /\ LastTx.type = "transfer" /\ LastTx.amount > 0
  /\ LastTx.senderId # LastTx.recipientId
  /\ HasAccount(Accounts, LastTx.senderId)
  /\ \A i \in DOMAIN Accounts :
       IF Accounts[i].id = LastTx.senderId THEN Accounts[i].balance = 0
       ELSE Accounts[i].balance >= SeedBalance

\* ------------------------------------------------------------------ C4
\* the balance of every account, in the order of the file
Balances(users) == [i \in DOMAIN users |-> <<users[i].id, users[i].balance>>]

\* C4: a sendTransfer or fundAccount that ends in a persistence failure (500,
\* a write of either file failed) leaves the persisted balances and the
\* persisted log exactly as they were before the call.
C4_FailedWriteChangesNothing ==
  [][((Answered("send") \/ Answered("fund")) /\ last'.status = 500) =>
       (Balances(usersFile'.data) = Balances(Accounts) /\ txFile'.data = Log)]_vars

\* ------------------------------------------------------------------ C5
\* C5: in every reachable state the account numbers of the accounts are
\* pairwise distinct, and so are their emails.
C5_UniqueNumbersAndEmails ==
  \A i, j \in DOMAIN Accounts :
    i # j => /\ Accounts[i].accountNumber # Accounts[j].accountNumber
             /\ Accounts[i].email # Accounts[j].email

\* two registrations succeeded next to the seeded admin
C5_Witness ==
  /\ last.op = "register" /\ last.success
  /\ Len(Accounts) = 3
  /\ Accounts[1].role = "admin"

\* ------------------------------------------------------------------ C6
\* C6: a well-formed sendTransfer whose recipient account number is the
\* sender's own fails, changes no balance and appends no transaction.
C6_SelfTransferRefused ==
  [][Answered("send") =>
       \A req \in SendRequests :
         ( /\ WellFormedSend(req)
           /\ SenderIndex(req) # 0
           /\ SenderIndex(req) = RecipientIndex(req)
           /\ sendTransfer(req, ReadOk, WriteOk) ) =>
             ( /\ ~last'.success
               /\ Balances(usersFile'.data) = Balances(Accounts)
               /\ txFile'.data = Log )]_vars

\* ------------------------------------------------------------------ C7
\* the reasons of the claim, read off the request and the persisted accounts
AmountNotPositive(a) == IF a.t = "number" THEN a.v <= 0 ELSE TRUE

SendMustFail(req) ==
  \/ AmountNotPositive(req.amount)
  \/ req.transactionCode # TransactionCode
  \/ ~\E i \in DOMAIN Accounts : Accounts[i].id = req.senderId
  \/ ~\E i \in DOMAIN Accounts : Accounts[i].accountNumber = req.recipientAccountNumber
  \/ /\ req.amount.t = "number"
     /\ \E i \in DOMAIN Accounts :
          Accounts[i].id = req.senderId /\ Accounts[i].balance < req.amount.v

FundMustFail(req) ==
  \/ AmountNotPositive(req.amount)
  \/ ~\E i \in DOMAIN Accounts : Accounts[i].id = req.adminId /\ Accounts[i].role = "admin"
  \/ ~\E i \in DOMAIN Accounts : Accounts[i].accountNumber = req.accountNumber

\* the step answers with a rejection and leaves both files as they were
RejectedWithoutEffect == ~last'.success /\ last'.status # 500 /\ StoreUnchanged

\* C7: a sendTransfer with a non-positive or missing amount, a wrong
\* authCode, an unknown sender, an unknown recipient or insufficient funds
\* fails and leaves both files exactly as before; so does a fundAccount with
\* an invalid amount, a non-admin caller or an unknown target.  (Stated as:
\* in no reachable state can such a request take a step that is anything but
\* a rejection without effect, whatever the file system does.  The handlers'
\* own guard comes first so that a state that accepts no request is settled
\* at once.)
C7_RejectedCallsChangeNothing ==
  /\ ~ENABLED ( /\ reg.pc = "idle" /\ nreq < MaxReq
                /\ \E req \in SendRequests :
                     /\ SendMustFail(req)
                     /\ sendTransfer(req, ReadOutcomes, WriteOutcomes)
                     /\ ~RejectedWithoutEffect )
  /\ ~ENABLED ( /\ reg.pc = "idle" /\ nreq < MaxReq
                /\ \E req \in FundRequests :
                     /\ FundMustFail(req)
                     /\ fundAccount(req, ReadOutcomes, WriteOutcomes)
                     /\ ~RejectedWithoutEffect )

\* a transfer between existing accounts was refused for insufficient funds
C7_Witness ==
  /\ last.op = "send" /\ ~last.success /\ last.message = "Insufficient funds"
  /\ Len(Accounts) >= 2

\* ------------------------------------------------------------------ C8
IsPrefix(a, b) == Len(a) <= Len(b) /\ \A i \in DOMAIN a : a[i] = b[i]

\* C8: across every step, whatever the reads and writes do, the log before
\* the step is a prefix of the log after it.
C8_AppendOnlyLog == [][IsPrefix(Log, txFile'.data)]_vars

\* ------------------------------------------------------------------ C9
\* C9: a deleteAccount whose target has role admin fails with 403 "Cannot
\* delete admin user" and leaves the account store unchanged.
C9_AdminNotDeletable ==
  [][Answered("delete") =>
       \A req \in DeleteRequests :
         ( /\ \E i \in DOMAIN Accounts : Accounts[i].id = req.id /\ Accounts[i].role = "admin"
           /\ deleteAccount(req, ReadOk, WriteOk) ) =>
             ( /\ ~last'.success /\ last'.status = 403
               /\ last'.message = "Cannot delete admin user"
               /\ StoreUnchanged )]_vars

\* a delete of the admin was refused, with other accounts present
C9_Witness ==
  /\ last.op = "delete" /\ last.status = 403
  /\ Len(Accounts) >= 2
  /\ \E i \in DOMAIN Accounts : Accounts[i].role = "admin"

\* ----------------------------------------------------------------- C10
\* C10: a register call with all fields present whose email is the email of
\* an existing account fails with "Email already in use", creates no account
\* and leaves every existing account unchanged.
C10_DuplicateEmailRefused ==
  [][Answered("register") =>
       \A req \in RegisterRequests :
         ( /\ req.firstName # "" /\ req.lastName # "" /\ req.password # ""
           /\ \E i \in DOMAIN Accounts : Accounts[i].email = req.email
           /\ register(req, ReadOk, WriteOk) ) =>
             ( /\ ~last'.success /\ last'.status = 400
               /\ last'.message = "Email already in use"
               /\ Len(usersFile'.data) = Len(Accounts)
               /\ StoreUnchanged
               /\ reg'.pc = "idle" )]_vars

\* a registration was refused for its email, with a registered user present
C10_Witness ==
  /\ last.op = "register" /\ ~last.success /\ last.message = "Email already in use"
  /\ Len(Accounts) >= 2

\* ----------------------------------------------------------------- C11
\* C11: a fundAccount that succeeds, with target account number n and amount
\* a, leaves the account store as it was except that the balance of the
\* account numbered n is larger by exactly a (no other account changes, the
\* admin's included when the admin is not the target), and leaves the log as
\* it was with exactly one transaction appended, of the type the handler
\* gives a mint ("admin-fund"), with amount a, the target as recipientId and
\* no senderId field.
C11_MintEffect ==
  [][(Answered("fund") /\ last'.success) =>
       \A req \in FundRequests :
         fundAccount(req, ReadOk, WriteOk) =>
           LET ui == findIndexByAccountNumber(Accounts, req.accountNumber)
               t == txFile'.data[Len(txFile'.data)]
           IN /\ ui # 0
              /\ usersFile'.data = [Accounts EXCEPT ![ui].balance = @ + req.amount.v]
              /\ Len(txFile'.data) = Len(Log) + 1
              /\ IsPrefix(Log, txFile'.data)
              /\ t.type = "admin-fund"
              /\ t.amount = req.amount.v
              /\ t.recipientId = Accounts[ui].id
              /\ "senderId" \notin DOMAIN t]_vars

\* a mint into a registered user's account succeeded: the user holds the
\* minted amount and the admin holds the seed balance
C11_Witness ==
  /\ last.op = "fund" /\ last.success
  /\ Len(Log) > 0
  /\ LastTx.type = "admin-fund" /\ LastTx.amount > 0
  /\ LastTx.recipientId # AdminId
  /\ HasAccount(Accounts, LastTx.recipientId)
  /\ BalanceOf(Accounts, LastTx.recipientId) = LastTx.amount
  /\ BalanceOf(Accounts, AdminId) = SeedBalance

\* ----------------------------------------------------------------- C12
\* the caller of a fund request resolves to no account with role admin
CallerNotAdmin(req) ==
  ~\E i \in DOMAIN Accounts : Accounts[i].id = req.adminId /\ Accounts[i].role = "admin"

\* C12: a fundAccount whose adminId resolves to no account with role admin is
\* answered 403 "Unauthorized", for every target account number and every
\* amount (absent, zero, negative or positive; known or unknown target), and
\* leaves both files as they were.
C12_UnauthorizedFirst ==
  [][Answered("fund") =>
       \A req \in FundRequests :
         (CallerNotAdmin(req) /\ fundAccount(req, ReadOk, WriteOk)) =>
           ( /\ ~last'.success /\ last'.status = 403
             /\ last'.message = "Unauthorized"
             /\ StoreUnchanged )]_vars

\* ----------------------------------------------------------------- C13
\* an account with its balance blanked: everything a transfer or a mint
\* leaves alone
SansBalance(u) == [u EXCEPT !.balance = 0]

\* b is a with one element taken out
OneRemoved(a, b) ==
  /\ Len(b) = Len(a) - 1
  /\ \E i \in DOMAIN a : \A k \in DOMAIN b : b[k] = IF k < i THEN a[k] ELSE a[k + 1]

\* C13: requests that arrive together are handled one whole handler after
\* the other, so the files after N of them are those of the serial execution
\* in the order handled; and no handler's write-back of a whole collection
\* loses what an earlier call committed: every step writes the committed
\* collection changed by one call's effect only.  The log keeps every
\* transaction and gains at most one; a register keeps every account and adds
\* at most one; a delete removes at most one account and changes none; a
\* transfer or a mint keeps every account and changes balances only; and the
\* array a register holds while it is sampling is the committed one.
C13_NoLostUpdate ==
  [][LET U == Accounts
         V == usersFile'.data
     IN /\ IsPrefix(Log, txFile'.data)
        /\ Len(txFile'.data) <= Len(Log) + 1
        /\ reg'.pc = "sampling" => reg'.users = V
        /\ IF last'.op = "register"
           THEN IsPrefix(U, V) /\ Len(V) <= Len(U) + 1
           ELSE IF last'.op = "delete"
           THEN V = U \/ OneRemoved(U, V)
           ELSE IF last'.op \in {"send", "fund"}
           THEN /\ Len(V) = Len(U)
                /\ \A i \in DOMAIN U : SansBalance(V[i]) = SansBalance(U[i])
           ELSE V = U]_vars

\* a register, a mint and a transfer were all committed, one after another
C13_Witness ==
  /\ nreq = 3
  /\ last.op = "send" /\ last.success
  /\ Len(Accounts) = 2
  /\ Len(Log) = 2
  /\ Log[1].type = "admin-fund" /\ Log[2].type = "transfer"

NewTransactions ==
  {k \in DOMAIN txFile'.data : ~\E m \in DOMAIN Log : Log[m].id = txFile'.data[k].id}

\* the persisted accounts after the step carry the balance effect of t,
\* counted from the persisted accounts before it
EffectPersisted(t) ==
  /\ usersFile'.valid
  /\ Len(usersFile'.data) = Len(Accounts)
  /\ \E r \in DOMAIN Accounts :
       /\ Accounts[r].id = t.recipientId
       /\ IF t.type = "transfer"
          THEN \E s \in DOMAIN Accounts :
                 /\ Accounts[s].id = t.senderId
                 /\ IF s = r
                    THEN usersFile'.data[s].balance = Accounts[s].balance
                    ELSE /\ usersFile'.data[s].balance = Accounts[s].balance - t.amount
                         /\ usersFile'.data[r].balance = Accounts[r].balance + t.amount
          ELSE usersFile'.data[r].balance = Accounts[r].balance + t.amount

\* accounts i of the old store and k of the new one are the same account
SameAccount(i, k) == usersFile'.data[k].id = Accounts[i].id

RECURSIVE TotalBalance(_)
\* the sum of the balances of all the accounts of an array
TotalBalance(users) ==
  IF users = <<>> THEN 0
  ELSE users[Len(users)].balance + TotalBalance(SubSeq(users, 1, Len(users) - 1))

\* C16: a step raises the sum of all persisted balances only when it is a
\* fundAccount that succeeds, and then by exactly the amount of the mint it
\* logs; no register, sendTransfer or deleteAccount, and no call that fails,
\* raises it.
C16_OnlyMintRaisesSum ==
  [][TotalBalance(usersFile'.data) > TotalBalance(Accounts) =>
       ( /\ Answered("fund") /\ last'.success
         /\ Len(txFile'.data) > 0
         /\ TotalBalance(usersFile'.data) =
              TotalBalance(Accounts) + txFile'.data[Len(txFile'.data)].amount )]_vars

\* ----------------------------------------------------------------- C17
\* the register handler is in its loop, holding an array of accounts that
\* leaves at least one number of the sampled range unused
SamplingWithFreeNumber ==
  /\ reg.pc = "sampling"
  /\ \E n \in AccountNumbers : \A i \in DOMAIN reg.users : reg.users[i].accountNumber # n

\* C17: a register that creates an account gives it a number that none of
\* the accounts it was appended to holds (the loop is never left with a
\* taken number); and, the samples being fair, a register that is in its
\* loop while some number of the range is unused leaves the loop and
\* answers.
C17_Allocation ==
  /\ [][(uuid' = uuid + 1 /\ last'.op = "register" /\ last'.success) =>
          LET V == usersFile'.data
          IN /\ Len(V) > 0
             /\ \A i \in 1..(Len(V) - 1) : V[i].accountNumber # V[Len(V)].accountNumber]_vars
  /\ SamplingWithFreeNumber ~> (reg.pc = "idle" /\ last.op = "register")

\* a register is in its loop, after sampling the number of the account
\* registered before it, with a number of the range still unused
C17_Witness ==
  /\ SamplingWithFreeNumber
  /\ Len(reg.users) = 2
  /\ reg.accountNumber = reg.users[2].accountNumber

\* ----------------------------------------------------------------- C18
\* C18: in any account store, a sendTransfer with the right code and a
\* positive amount from account i to another account j, one of which has
\* status disabled, fails, changes no balance and appends no transaction.
C18_DisabledRejectsTransfers ==
  [][Answered("send") =>
       \A i, j \in DOMAIN Accounts, b \in PositiveAmounts :
         ( /\ i # j
           /\ Accounts[i].status = "disabled" \/ Accounts[j].status = "disabled"
           /\ SendOf(i, j, b) \in SendRequests
           /\ sendTransfer(SendOf(i, j, b), ReadOk, WriteOk) ) =>
             ( /\ ~last'.success
               /\ Balances(usersFile'.data) = Balances(Accounts)
               /\ txFile'.data = Log )]_vars

\* ----------------------------------------------------------------- C19
\* the accounts with role admin
Admins == {i \in DOMAIN Accounts : Accounts[i].role = "admin"}

\* C19: in every reachable state whose users.json is readable, whatever the
\* reads and writes did, exactly one account has role admin, and it is the
\* seeded admin account.
C19_ExactlyOneAdmin ==
  usersFile.valid =>
    /\ Cardinality(Admins) = 1
    /\ \A i \in Admins : Accounts[i].id = AdminId /\ Accounts[i].accountNumber = AdminAccountNumber

\* ----------------------------------------------------------------- C20
\* the step is the one in which a register call answers, at once or after
\* passes of its loop
RegisterAnswered ==
  /\ last'.op = "register" /\ reg'.pc = "idle"
  /\ nreq' = nreq + 1 \/ (reg.pc = "sampling" /\ nreq' = nreq)

\* the fields of an account the claim names
Kept(u) ==
  [id |-> u.id, accountNumber |-> u.accountNumber, email |-> u.email, role |-> u.role,
   status |-> u.status, balance |-> u.balance]

\* C20: a register call, whatever it answers and whatever its read of
\* users.json did, leaves users.json (readable before and after) with every
\* account it held, in place and with the same id, accountNumber, email,
\* role, status and balance; when it succeeds there is exactly one account
\* more, with balance 0, status active and role user, and otherwise none.
C20_RegisterKeepsAccounts ==
  [][(RegisterAnswered /\ usersFile.valid /\ usersFile'.valid) =>
       LET V == usersFile'.data
       IN /\ Len(V) >= Len(Accounts)
          /\ \A i \in DOMAIN Accounts : Kept(V[i]) = Kept(Accounts[i])
          /\ IF last'.success
             THEN /\ Len(V) = Len(Accounts) + 1
                  /\ V[Len(V)].balance = 0
                  /\ V[Len(V)].status = "active"
                  /\ V[Len(V)].role = "user"
             ELSE Len(V) = Len(Accounts)]_vars

TypeOK ==
  /\ usersFile.valid \in BOOLEAN
  /\ txFile.valid \in BOOLEAN
  /\ uuid \in 0..(MaxReq + 1)
  /\ nreq \in 0..MaxReq
  /\ reg.pc \in {"idle", "sampling"}
====
